---- MODULE Spec2Model ----
(***************************************************************************)
(* Model of the to_vec crate (src/src/lib.rs): the four extension methods  *)
(* to_vec, to_vec_result, to_map and to_set.  Each method hands its        *)
(* iterator to FromIterator::from_iter; the model unfolds that call into   *)
(* the pulls it makes on the iterator (one action per outcome of next()),  *)
(* so that what is pulled, in which order and when the method returns are  *)
(* all observable.                                                         *)
(*                                                                         *)
(* A sequence is an iterator over backing storage `data`: cell a of the    *)
(* storage is data[a].  An item the iterator produces is either a          *)
(* reference to a cell (Ref(a)) or an owned value (Val(x)).                *)
(***************************************************************************)
EXTENDS Integers, Sequences, FiniteSets, TLC

\* Bounds of the model.
MaxLen == 3
MaxItem == 2

VARIABLES pc, op, byRef, data, cursor, pulls, vec, map, set, residual, ret,
          round, prev

vars == <<pc, op, byRef, data, cursor, pulls, vec, map, set, residual, ret,
          round, prev>>

Values == 1 .. MaxItem

\* Finite sequences over S of length at most MaxLen.
SeqsUpTo(S) == UNION {[1 .. n -> S] : n \in 0 .. MaxLen}

Range(s) == {s[i] : i \in DOMAIN s}

\* An item that borrows cell a of the backing storage (&T).
Ref(a) == [kind |-> "ref", v |-> a]

\* An item that is an owned value (T).
Val(x) == [kind |-> "val", v |-> x]

\* Result<T,E> values.
Ok(x) == [tag |-> "Ok", v |-> x]
Err(e) == [tag |-> "Err", v |-> e]

NoResidual == [tag |-> "None"]
NoRet == [tag |-> "None"]
EmptyMap == [k \in {} |-> 0]

\* Backing storage of a sequence of Result<T,E>: each cell says whether the
\* item computed from it succeeds, and with which payload.
ResultCells == [ok : BOOLEAN, v : Values]

\* Backing storage of a sequence of (K,V) pairs.
PairCells == Values \X Values

----
\* The iterator

\* Iterator::next returns None: the cursor is past the last cell.
ExhaustedEarly(d, c) == c >= Len(d)
Exhausted(d, c) == c > Len(d)

\* The item of type T an Iterator<Item=T> produces at position i: a borrow of
\* the cell (split_whitespace, iter()) or a value computed from it (map(..)).
Item(d, r, i) == IF r THEN Ref(i) ELSE Val(d[i])

\* The item an Iterator<Item=Result<T,E>> produces at position i.
ResultItem(d, r, i) ==
    IF d[i].ok THEN Ok(IF r THEN Ref(i) ELSE Val(d[i].v))
               ELSE Err(Val(d[i].v))

\* self.cloned() in to_set: &K -> K.
cloned_K_alias(item, d) == item
cloned_K(item, d) == Val(d[item.v])

\* self.cloned() in to_map: &(K,V) -> (K,V).
cloned_KV_swapped(item, d) == [k |-> Val(d[item.v][2]), v |-> Val(d[item.v][1])]
cloned_KV(item, d) == [k |-> Val(d[item.v][1]), v |-> Val(d[item.v][2])]

----
\* The containers from_iter builds

VecPushFront(v, x) == <<x>> \o v
VecPush(v, x) == Append(v, x)

HashMapInsertKeepFirst(m, k, v) ==
    [x \in DOMAIN m \cup {k} |-> IF x \in DOMAIN m THEN m[x] ELSE v]
HashMapInsert(m, k, v) ==
    [x \in DOMAIN m \cup {k} |-> IF x = k THEN v ELSE m[x]]

HashSetInsertToggle(s, x) == IF x \in s THEN s \ {x} ELSE s \cup {x}
HashSetInsert(s, x) == s \cup {x}

\* Result<Vec<T>,E>::from_iter: the residual decides what is returned.
try_process_lenient(v, res) == Ok(v)
try_process(v, res) == IF res = NoResidual THEN Ok(v) ELSE res

----
\* to_set as a function of the backing storage

RECURSIVE HashSetFromIter(_, _, _)
HashSetFromIter(d, i, acc) ==
    IF Exhausted(d, i) THEN acc
    ELSE HashSetFromIter(d, i + 1, HashSetInsert(acc, cloned_K(Ref(i), d)))

to_set(d) == HashSetFromIter(d, 1, {})

----
\* State machine

Init ==
    /\ pc = "idle"
    /\ op = "none"
    /\ byRef = FALSE
    /\ data = <<>>
    /\ cursor = 1
    /\ pulls = <<>>
    /\ vec = <<>>
    /\ map = EmptyMap
    /\ set = {}
    /\ residual = NoResidual
    /\ ret = NoRet
    /\ round = 0
    /\ prev = {}

\* A caller (idle until then) invokes method m on a fresh iterator over
\* storage d.
Call(m, d, r) ==
    /\ pc' = "iter"
    /\ op' = m
    /\ data' = d
    /\ byRef' = r
    /\ round' = 1
    /\ UNCHANGED <<cursor, pulls, vec, map, set, residual, ret, prev>>

to_vec_call ==
    /\ pc = "idle"
    /\ \E d \in SeqsUpTo(Values), r \in BOOLEAN : Call("to_vec", d, r)

to_vec_result_call ==
    /\ pc = "idle"
    /\ \E d \in SeqsUpTo(ResultCells), r \in BOOLEAN :
          Call("to_vec_result", d, r)

\* to_map and to_set are only defined on iterators of references.
to_map_call ==
    /\ pc = "idle"
    /\ \E d \in SeqsUpTo(PairCells) : Call("to_map", d, TRUE)

to_set_call ==
    /\ pc = "idle"
    /\ \E d \in SeqsUpTo(Values) : Call("to_set", d, TRUE)

\* next() hands out the item at the cursor and advances.
Pull ==
    /\ cursor' = cursor + 1
    /\ pulls' = Append(pulls, cursor)

Running(m) == pc = "iter" /\ op = m

\* to_vec: next() = Some(x)
to_vec_Some ==
    /\ Running("to_vec")
    /\ ~Exhausted(data, cursor)
    /\ Pull
    /\ vec' = VecPush(vec, Item(data, byRef, cursor))
    /\ UNCHANGED <<pc, op, byRef, data, map, set, residual, ret, round, prev>>

\* to_vec: next() = None
to_vec_None ==
    /\ Running("to_vec")
    /\ Exhausted(data, cursor)
    /\ pc' = "done"
    /\ ret' = [tag |-> "Vec", v |-> vec]
    /\ UNCHANGED <<op, byRef, data, cursor, pulls, vec, map, set, residual,
                   round, prev>>

\* to_vec_result: next() = Some(Ok(x))
to_vec_result_Ok ==
    /\ Running("to_vec_result")
    /\ ~Exhausted(data, cursor)
    /\ ResultItem(data, byRef, cursor).tag = "Ok"
    /\ Pull
    /\ vec' = VecPush(vec, ResultItem(data, byRef, cursor).v)
    /\ UNCHANGED <<pc, op, byRef, data, map, set, residual, ret, round, prev>>

\* A variant that records the failure and keeps collecting.
to_vec_result_Err_continue ==
    /\ Running("to_vec_result")
    /\ ~Exhausted(data, cursor)
    /\ ResultItem(data, byRef, cursor).tag = "Err"
    /\ Pull
    /\ residual' = ResultItem(data, byRef, cursor)
    /\ UNCHANGED <<pc, op, byRef, data, vec, map, set, ret, round, prev>>

\* to_vec_result: next() = Some(Err(e)): the failure is kept as the residual,
\* collection ends without another pull and the residual is returned.
to_vec_result_Err ==
    /\ Running("to_vec_result")
    /\ ~Exhausted(data, cursor)
    /\ ResultItem(data, byRef, cursor).tag = "Err"
    /\ Pull
    /\ residual' = ResultItem(data, byRef, cursor)
    /\ pc' = "done"
    /\ ret' = try_process(vec, residual')
    /\ UNCHANGED <<op, byRef, data, vec, map, set, round, prev>>

\* to_vec_result: next() = None
to_vec_result_None ==
    /\ Running("to_vec_result")
    /\ Exhausted(data, cursor)
    /\ pc' = "done"
    /\ ret' = try_process(vec, residual)
    /\ UNCHANGED <<op, byRef, data, cursor, pulls, vec, map, set, residual,
                   round, prev>>

\* to_map: next() = Some(&(k,v))
to_map_Some ==
    /\ Running("to_map")
    /\ ~Exhausted(data, cursor)
    /\ Pull
    /\ LET e == cloned_KV(Item(data, byRef, cursor), data)
       IN  map' = HashMapInsert(map, e.k, e.v)
    /\ UNCHANGED <<pc, op, byRef, data, vec, set, residual, ret, round, prev>>

\* to_map: next() = None
to_map_None ==
    /\ Running("to_map")
    /\ Exhausted(data, cursor)
    /\ pc' = "done"
    /\ ret' = [tag |-> "Map", v |-> map]
    /\ UNCHANGED <<op, byRef, data, cursor, pulls, vec, map, set, residual,
                   round, prev>>

\* A variant that loses the first item of the sequence.
to_set_Some_skip1 ==
    /\ Running("to_set")
    /\ ~Exhausted(data, cursor)
    /\ Pull
    /\ set' = IF cursor = 1 THEN set
              ELSE HashSetInsert(set, cloned_K(Item(data, byRef, cursor), data))
    /\ UNCHANGED <<pc, op, byRef, data, vec, map, residual, ret, round, prev>>

\* to_set: next() = Some(&k)
to_set_Some ==
    /\ Running("to_set")
    /\ ~Exhausted(data, cursor)
    /\ Pull
    /\ set' = HashSetInsert(set, cloned_K(Item(data, byRef, cursor), data))
    /\ UNCHANGED <<pc, op, byRef, data, vec, map, residual, ret, round, prev>>

\* to_set: next() = None
to_set_None ==
    /\ Running("to_set")
    /\ Exhausted(data, cursor)
    /\ pc' = "done"
    /\ ret' = [tag |-> "Set", v |-> set]
    /\ UNCHANGED <<op, byRef, data, cursor, pulls, vec, map, set, residual,
                   round, prev>>

\* The caller iterates the returned HashSet (in whatever order the set hands
\* its members out) and calls to_set on that iterator, as test_to_set does.
to_set_again ==
    /\ pc = "done"
    /\ op = "to_set"
    /\ round = 1
    /\ \E d \in [1 .. Cardinality(ret.v) -> {x.v : x \in ret.v}] :
          /\ Cardinality(Range(d)) = Cardinality(ret.v)
          /\ data' = d
    /\ prev' = ret.v
    /\ round' = 2
    /\ pc' = "iter"
    /\ cursor' = 1
    /\ pulls' = <<>>
    /\ set' = {}
    /\ ret' = NoRet
    /\ UNCHANGED <<op, byRef, vec, map, residual>>

Step ==
    \/ to_vec_Some
    \/ to_vec_None
    \/ to_vec_result_Ok
    \/ to_vec_result_Err
    \/ to_vec_result_None
    \/ to_map_Some
    \/ to_map_None
    \/ to_set_Some
    \/ to_set_None

Next ==
    \/ to_vec_call
    \/ to_vec_result_call
    \/ to_map_call
    \/ to_set_call
    \/ to_set_again
    \/ Step

Spec == Init /\ [][Next]_vars

\* A method, once called, runs synchronously to its return.
FairSpec == Spec /\ WF_vars(Step)

----
\* Properties

Total == {"to_vec", "to_map", "to_set"}

Done(m) == pc = "done" /\ op = m

\* 1 .. n as the sequence <<1, ..., n>>
Upto(n) == [i \in 1 .. n |-> i]

\* Position (from 1) of the earliest failure in d, 0 when every item succeeds.
FirstErr(d) ==
    IF \A i \in DOMAIN d : d[i].ok THEN 0
    ELSE CHOOSE i \in DOMAIN d : ~d[i].ok /\ \A j \in 1 .. i - 1 : d[j].ok

\* Position of the last occurrence of key k in the pairs d.
LastOf(d, k) ==
    CHOOSE i \in DOMAIN d :
        d[i][1] = k /\ \A j \in DOMAIN d : d[j][1] = k => j <= i

Keys(d) == [i \in DOMAIN d |-> d[i][1]]

\* No element of the returned container r borrows a cell of the storage.
NoAlias(r) ==
    CASE r.tag = "Vec" -> \A i \in DOMAIN r.v : r.v[i].kind = "val"
      [] r.tag = "Ok"  -> \A i \in DOMAIN r.v : r.v[i].kind = "val"
      [] r.tag = "Err" -> r.v.kind = "val"
      [] r.tag = "Map" -> \A k \in DOMAIN r.v : k.kind = "val" /\ r.v[k].kind = "val"
      [] r.tag = "Set" -> \A x \in r.v : x.kind = "val"
      [] OTHER -> TRUE

\* C1: to_vec returns a list as long as the sequence whose i-th element is
\* the i-th item the sequence produced, duplicates included.
C1_OrderPreserved ==
    Done("to_vec") =>
        /\ ret.tag = "Vec"
        /\ Len(ret.v) = Len(data)
        /\ \A i \in 1 .. Len(data) : ret.v[i] = Item(data, byRef, i)

C1_Witness ==
    /\ Done("to_vec")
    /\ Len(data) = 3
    /\ data[1] = data[3]
    /\ data[1] # data[2]

\* C2: when the sequence holds a failure, to_vec_result returns a failure
\* whose payload is that of the earliest failure, unchanged; neither a later
\* failure nor the successes collected so far are returned.
C2_FirstFailure ==
    (Done("to_vec_result") /\ FirstErr(data) # 0) =>
        ret = Err(Val(data[FirstErr(data)].v))

C2_Witness ==
    /\ Done("to_vec_result")
    /\ Len(data) = 3
    /\ data[1].ok
    /\ ~data[2].ok
    /\ ~data[3].ok
    /\ data[2].v # data[3].v
    /\ vec # <<>>

\* C3: when the first failure is at position p (from 0), to_vec_result pulls
\* items 0..p in order and nothing after p; p+1 items have been pulled when
\* it returns.
C3_ShortCircuit ==
    (op = "to_vec_result" /\ FirstErr(data) # 0) =>
        LET p == FirstErr(data) - 1
        IN  /\ \A a \in Range(pulls) : a <= p + 1
            /\ pc = "done" => (pulls = Upto(p + 1) /\ Len(pulls) = p + 1)

C3_Witness ==
    /\ Done("to_vec_result")
    /\ Len(data) = 3
    /\ FirstErr(data) = 2
    /\ Len(pulls) = 2

\* C4: to_vec_result returns a success exactly when every item is a success;
\* the success holds the unwrapped payloads in production order, and the
\* empty list for the empty sequence.
C4_AllSuccess ==
    Done("to_vec_result") =>
        /\ ret.tag = "Ok" <=> FirstErr(data) = 0
        /\ FirstErr(data) = 0 =>
              /\ Len(ret.v) = Len(data)
              /\ \A i \in 1 .. Len(data) :
                    ret.v[i] = ResultItem(data, byRef, i).v
        /\ data = <<>> => ret = Ok(<<>>)

C4_Witness ==
    /\ Done("to_vec_result")
    /\ Len(data) = 3
    /\ FirstErr(data) = 0
    /\ data[1].v # data[2].v
    /\ ret.tag = "Ok"

\* C5: to_map returns a map with one entry per distinct key of the sequence,
\* each key mapped to the value of its last occurrence; a duplicate key is
\* not an error.
C5_LastWins ==
    Done("to_map") =>
        /\ ret.tag = "Map"
        /\ DOMAIN ret.v = {Val(data[i][1]) : i \in DOMAIN data}
        /\ \A i \in DOMAIN data :
              ret.v[Val(data[i][1])] = Val(data[LastOf(data, data[i][1])][2])

C5_Witness ==
    /\ Done("to_map")
    /\ Len(data) = 3
    /\ data[1][1] = data[3][1]
    /\ data[1][2] # data[3][2]
    /\ data[2][1] # data[1][1]

\* C6: to_set returns exactly the distinct values of the sequence: every
\* produced item is a member, every member was produced, and any sequence
\* with the same distinct values gives an equal set.
C6_DistinctValues ==
    Done("to_set") =>
        /\ ret.tag = "Set"
        /\ \A i \in DOMAIN data : Val(data[i]) \in ret.v
        /\ \A x \in ret.v : \E i \in DOMAIN data : x = Val(data[i])
        /\ \A d \in SeqsUpTo(Values) :
              Range(d) = Range(data) => to_set(d) = ret.v

C6_Witness ==
    /\ Done("to_set")
    /\ round = 1
    /\ Len(data) = 3
    /\ data[1] = data[3]
    /\ data[1] # data[2]
    /\ Cardinality(ret.v) = 2

\* C7: to_set applied to the items of to_set(S) gives a set equal to
\* to_set(S).
C7_Idempotent ==
    (Done("to_set") /\ round = 2) => ret.v = prev

C7_Witness ==
    /\ Done("to_set")
    /\ round = 2
    /\ Cardinality(prev) >= 2
    /\ data[1] > data[2]

\* C8 as stated: no method changes the backing data of its sequence, and the
\* container each of the four returns does not alias that data.
C8_NoAliasAnyMethod ==
    [][/\ pc = "iter" => data' = data
       /\ pc' = "done" => NoAlias(ret')]_vars

\* C8 amended: no method changes the backing data of its sequence; to_map and
\* to_set return containers of clones that borrow no cell of it, while
\* to_vec and to_vec_result return the items as produced, which borrow cells
\* of it exactly when the sequence produces references.
C8_NoMutationCloneOnly ==
    [][/\ pc = "iter" => data' = data
       /\ (pc' = "done" /\ op' \in {"to_map", "to_set"}) => NoAlias(ret')
       /\ (pc' = "done" /\ op' = "to_vec") =>
             \A i \in DOMAIN ret'.v : ret'.v[i].kind = "ref" <=> byRef'
       /\ (pc' = "done" /\ op' = "to_vec_result" /\ ret'.tag = "Ok") =>
             \A i \in DOMAIN ret'.v : ret'.v[i].kind = "ref" <=> byRef']_vars

C8_Witness ==
    /\ Done("to_set")
    /\ round = 1
    /\ byRef
    /\ Len(data) = 2
    /\ ret.v = {Val(data[1]), Val(data[2])}

\* C9: to_vec, to_map and to_set always return, with a container and never
\* an error, and only after every item has been pulled exactly once in
\* production order.
C9_TotalAndDrained ==
    /\ [](\A m \in Total : Done(m) =>
            /\ ret.tag \in {"Vec", "Map", "Set"}
            /\ pulls = Upto(Len(data))
            /\ Exhausted(data, cursor))
    /\ \A m \in Total : (Running(m) ~> Done(m))

C9_Witness ==
    /\ Done("to_map")
    /\ Len(data) = 3
    /\ pulls = <<1, 2, 3>>

\* C10: the key set of to_map(P) is to_set of the keys of P; the map has at
\* most Len(P) entries, and exactly Len(P) when the keys are all distinct.
C10_KeysAreSet ==
    Done("to_map") =>
        /\ DOMAIN ret.v = to_set(Keys(data))
        /\ Cardinality(DOMAIN ret.v) <= Len(data)
        /\ Cardinality(DOMAIN ret.v) = Len(data)
              <=> \A i, j \in DOMAIN data : data[i][1] = data[j][1] => i = j

C10_Witness ==
    /\ Done("to_map")
    /\ Len(data) = 3
    /\ data[1][1] = data[2][1]
    /\ data[3][1] # data[1][1]
    /\ Cardinality(DOMAIN ret.v) = 2

====
